---- MODULE Spec2Model ----
(***************************************************************************)
(* Model of penne/evaluate.py: dataset_to_file -> dataset -> from_stems.   *)
(* One run of the evaluation is a sequential state machine: the prediction *)
(* phase that fills the prediction cache (pitch/ and periodicity/ .npy     *)
(* files), the threshold calibration loop over the hyperparameter stems,   *)
(* and the scoring of the test stems, with the three JSON artifacts.       *)
(* A second state machine, TrainSpec, is the epoch loop of penne/train.py: *)
(* the batch loops of an epoch, early stopping and the latest checkpoint.  *)
(*                                                                         *)
(* Thresholds are floats in the code.  Every threshold the loop can form   *)
(* is a dyadic rational k / 2^n, exact in binary floating point, so a      *)
(* threshold t is held as the integer t * Scale.                           *)
(***************************************************************************)
EXTENDS Integers, Sequences, FiniteSets, TLC

VARIABLES
    \* ---- arguments of the run (fixed by Init)
    name,               \* dataset name
    skip_predictions,   \* --skip_predictions
    ar,                 \* --ar
    hparam_stems,       \* list of stems used for calibration
    test_stems,         \* list of stems of the evaluated partition
    curve,              \* how F1 of the hyperparameter stems depends on the threshold
    prior,              \* TRUE when an earlier run left its files on disk
    \* ---- the file system
    pitch_dir,          \* stem -> content of pitch/<stem>.npy
    periodicity_dir,    \* stem -> content of periodicity/<stem>.npy
    artifacts,          \* JSON artifact -> state of the file
    \* ---- locals of from_stems
    pc,
    stem_i,             \* position of the prediction loop in hparam_stems + test_stems
    np_pitch, np_periodicity,
    total_seconds, total_frames, total_infers,
    left, right, left_f1, right_f1,
    hparam_results,     \* the dict, as the sequence of its items in insertion order
    best_thresh,
    per_stem,           \* what evaluate_per_stem returned
    result,             \* what from_stems returned
    \* ---- observation of the run (not read by the program)
    iters,              \* completed iterations of the calibration loop
    evals,              \* calls of evaluate_at_threshold, in order
    scored,             \* the arguments of every metric update
    infer_calls,        \* stems on which inference was run, in order
    \* ---- train.main: arguments and data loaders
    max_epochs,         \* --max_epochs
    limit_train_batches, \* --limit_train_batches
    limit_val_batches,  \* --limit_val_batches
    train_len,          \* len(train_loader)
    val_len,            \* len(valid_loader)
    \* ---- train.main: locals
    tpc,
    epoch,
    batch_t,            \* t: the index enumerate gives the batch at hand
    val_accuracy,
    last_val_acc,
    early_stop_count,
    latest_saved,       \* latest.ckpt has been written
    \* ---- observation of the training (not read by the program)
    trained,            \* training batches processed in this epoch
    validated,          \* validation batches processed in this epoch
    best_seen,          \* largest validation accuracy of the epochs completed
    stopped             \* the epoch loop was left by its break

vars == <<max_epochs, limit_train_batches, limit_val_batches, train_len, val_len,
          tpc, epoch, batch_t, val_accuracy, last_val_acc, early_stop_count,
          latest_saved, trained, validated, best_seen, stopped,
          name, skip_predictions, ar, hparam_stems, test_stems, curve, prior,
          pitch_dir, periodicity_dir, artifacts,
          pc, stem_i, np_pitch, np_periodicity,
          total_seconds, total_frames, total_infers,
          left, right, left_f1, right_f1, hparam_results, best_thresh,
          per_stem, result, iters, evals, scored, infer_calls>>

train == <<max_epochs, limit_train_batches, limit_val_batches, train_len, val_len,
           tpc, epoch, batch_t, val_accuracy, last_val_acc, early_stop_count,
           latest_saved, trained, validated, best_seen, stopped>>
targs == <<max_epochs, limit_train_batches, limit_val_batches, train_len, val_len>>

config == <<name, skip_predictions, ar, hparam_stems, test_stems, curve, prior>>
cache == <<pitch_dir, periodicity_dir>>
counters == <<total_seconds, total_frames, total_infers>>
search == <<left, right, left_f1, right_f1, hparam_results, iters>>

----------------------------------------------------------------------------
\* Bounds of the model

\* Frames in the reference annotation of a regular stem.
Frames == 2
\* Largest slope of a synthetic unimodal F1 curve.
MaxSlope == 3
\* Largest F1 level of an unconstrained F1 curve (levels 0..MaxF1).
MaxF1 == 1

----------------------------------------------------------------------------
\* Representation of the floats

\* A threshold t is the integer t * Scale; 2^10 leaves room below the 2^-8
\* interval the loop stops at.
Scale == 1024

\* right - left > 0.005, in thousandths.
TolMilli == 5

----------------------------------------------------------------------------
\* The data set

HparamPool == {"h1", "h2"}
TestPool == {"t1", "t2", "t3"}
Stems == HparamPool \cup TestPool

\* penne.load.pitch_annotation: the stem's reference, one entry per frame.
\* t3 has one more reference frame than the model predicts.
RefLen(stem) == IF stem = "t3" THEN Frames + 1 ELSE Frames

\* Frames the model predicts for the stem; h1 and t2 have one extra trailing
\* frame over their reference.
PredLen(stem) == IF stem \in {"h1", "t2"} THEN Frames + 1 ELSE Frames

Fill(n, x) == [i \in 1..n |-> x]

\* Predictions carry the run that made them: "old" (an earlier run) or "new".
Annotation(stem) == Fill(RefLen(stem), "ref")

NoFile == [exists |-> FALSE, data |-> <<>>]
NpyFile(data) == [exists |-> TRUE, data |-> data]

----------------------------------------------------------------------------
\* F1 of a set of stems as a function of the threshold (penne.metrics.F1)

\* A synthetic unimodal curve with its single maximum at t = 0.3: it rises
\* with slope up on [0, 0.3] and falls with slope down on [0.3, 1].  Values
\* are in units of 1 / (10 * Scale), shifted to stay >= 0.
Tent(up, down, t) ==
    IF 10 * t <= 3 * Scale
    THEN down * 7 * Scale + up * 10 * t
    ELSE down * 7 * Scale + up * 3 * Scale - down * (10 * t - 3 * Scale)

Curves ==
    [kind : {"tent"}, up : 1..MaxSlope, down : 1..MaxSlope]
        \cup {[kind |-> "free", up |-> 0, down |-> 0]}

\* The values F1 can take at threshold t over the stems: 0 with nothing
\* accumulated, the curve's value on a synthetic curve, any level otherwise.
F1Values(t, stems) ==
    IF stems = <<>> THEN {0}
    ELSE IF curve.kind = "tent" THEN {Tent(curve.up, curve.down, t)}
    ELSE 0..MaxF1

----------------------------------------------------------------------------
\* Scoring of one stem (the body of the loops of evaluate_at_threshold and
\* evaluate_per_stem)

Min(a, b) == IF a <= b THEN a ELSE b

\* np.load of both files; fails when either is missing.
CanLoad(stem) == pitch_dir[stem].exists /\ periodicity_dir[stem].exists

\* The dataset test dropped: every dataset's predictions are cut.
HandleOffByOneAnyDataset(nm, pitch, periodicity, annotation) ==
    IF Len(pitch) > Len(annotation)
    THEN [pitch |-> SubSeq(pitch, 1, Len(annotation)),
          periodicity |-> SubSeq(periodicity, 1, Min(Len(periodicity), Len(annotation))),
          annotation |-> annotation]
    ELSE [pitch |-> pitch, periodicity |-> periodicity, annotation |-> annotation]

\* "handle off by one error": a[:, :n] keeps at most n frames.
HandleOffByOne(nm, pitch, periodicity, annotation) ==
    IF nm = "PTDB" /\ Len(pitch) > Len(annotation)
    THEN [pitch |-> SubSeq(pitch, 1, Len(annotation)),
          periodicity |-> SubSeq(periodicity, 1, Min(Len(periodicity), Len(annotation))),
          annotation |-> annotation]
    ELSE [pitch |-> pitch, periodicity |-> periodicity, annotation |-> annotation]

\* What the four update calls of a stem receive.
UpdateArgs(fn, t, stem) ==
    LET a == HandleOffByOne(name, pitch_dir[stem].data, periodicity_dir[stem].data,
                            Annotation(stem))
    IN [fn |-> fn, thresh |-> t, stem |-> stem, pitch |-> a.pitch,
        periodicity |-> a.periodicity, annotation |-> a.annotation]

\* The metric updates need arrays of one length.
ShapesMatch(u) ==
    Len(u.pitch) = Len(u.annotation) /\ Len(u.periodicity) = Len(u.annotation)

\* The loop over stems, up to the first stem that raises: ok, the frames
\* accumulated (stem and frame count, in order) and the update calls made.
RECURSIVE ScoreStems(_, _, _, _, _)
ScoreStems(fn, t, stems, acc, calls) ==
    IF stems = <<>> THEN [ok |-> TRUE, acc |-> acc, calls |-> calls]
    ELSE LET stem == Head(stems) IN
         IF ~CanLoad(stem) THEN [ok |-> FALSE, acc |-> acc, calls |-> calls]
         ELSE LET u == UpdateArgs(fn, t, stem) IN
              IF ~ShapesMatch(u)
              THEN [ok |-> FALSE, acc |-> acc, calls |-> calls \cup {u}]
              ELSE ScoreStems(fn, t, Tail(stems),
                              Append(acc, <<stem, Len(u.pitch)>>), calls \cup {u})

\* The dict evaluate_at_threshold returns; precision, recall, wrmse, rpa and
\* rca are functions of the threshold and of the frames accumulated.
Scores(t, f1, acc) ==
    [thresh |-> t, f1 |-> f1, acc |-> acc, seconds |-> total_seconds,
     frames |-> total_frames, infers |-> total_infers]

----------------------------------------------------------------------------
\* hparam_results, a dict in insertion order

Keys(d) == {d[i].key : i \in 1..Len(d)}
Has(d, k) == k \in Keys(d)
Get(d, k) == (CHOOSE i \in 1..Len(d) : d[i].key = k)
Lookup(d, k) == d[Get(d, k)].scores

\* d[k] = v
Put(d, k, v) ==
    IF Has(d, k) THEN [d EXCEPT ![Get(d, k)] = [key |-> k, scores |-> v]]
    ELSE Append(d, [key |-> k, scores |-> v])

\* max(d, key = lambda x: d[x]['f1']): the first key, in insertion order,
\* whose f1 no other key exceeds.
MaxKey(d) ==
    LET i == CHOOSE i \in 1..Len(d) :
                 /\ \A j \in 1..Len(d) : d[j].scores.f1 <= d[i].scores.f1
                 /\ \A j \in 1..(i - 1) : d[j].scores.f1 < d[i].scores.f1
    IN d[i].key

\* evaluate_per_stem: one set of accumulators, updated with a stem, read into
\* res[stem], then reset; acc is what the accumulators hold.
\* The four reset calls left out: the accumulators keep their frames.
ResetNothing(acc) == acc

\* f1.reset(), wrmse.reset(), rpa.reset(), rca.reset()
Reset(acc) == <<>>

RECURSIVE PerStem(_, _, _, _, _)
PerStem(t, stems, acc, res, calls) ==
    IF stems = <<>> THEN [ok |-> TRUE, res |-> res, calls |-> calls]
    ELSE LET stem == Head(stems) IN
         IF ~CanLoad(stem) THEN [ok |-> FALSE, res |-> res, calls |-> calls]
         ELSE LET u == UpdateArgs("evaluate_per_stem", t, stem) IN
              IF ~ShapesMatch(u)
              THEN [ok |-> FALSE, res |-> res, calls |-> calls \cup {u}]
              ELSE LET held == Append(acc, <<stem, Len(u.pitch)>>) IN
                   PerStem(t, Tail(stems), Reset(held),
                           Put(res, stem, [thresh |-> t, acc |-> held]),
                           calls \cup {u})

----------------------------------------------------------------------------
\* The initial states: the arguments of the run and what is on disk

StemLists ==
    {<<h, t>> : h \in {<<>>, <<"h2">>, <<"h1", "h2">>},
                t \in {<<"t2", "t1">>, <<"t1", "t2">>, <<"t1", "t3">>,
                       <<"t2", "t3">>}}

Artifacts == {"hparam", "per_stem", "aggregate"}

\* The cache an earlier run of the same model left, or none.
InitCache(p) ==
    [stem \in Stems |-> IF p THEN NpyFile(Fill(PredLen(stem), "old")) ELSE NoFile]

NoThresh == 0 - 1

\* from_stems has not returned.
NoResult == [thresh |-> NoThresh]

\* The runs explored.  The synthetic curves are run with every dataset, mode,
\* disk and pair of stem lists; the unconstrained curve, whose runs branch at
\* every scoring, with one dataset, the batch mode, predictions made over the
\* cache of an earlier run and the stem lists that are scored to the end (the
\* calibration loop reads none of them).
Runs ==
    {r \in [name : {"PTDB", "MDB"}, skip : BOOLEAN, ar : BOOLEAN,
            prior : BOOLEAN, curve : Curves, stems : StemLists] :
        r.curve.kind = "free" =>
            /\ r.name = "PTDB" /\ ~r.ar /\ r.prior /\ ~r.skip
            /\ r.stems = <<(<<"h1", "h2">>), (<<"t2", "t1">>)>>}

\* train.main is not running.
TrainIdle ==
    /\ max_epochs = 0
    /\ limit_train_batches = 0
    /\ limit_val_batches = 0
    /\ train_len = 0
    /\ val_len = 0
    /\ tpc = "idle"
    /\ epoch = 0
    /\ batch_t = 0
    /\ val_accuracy = 0
    /\ last_val_acc = 0
    /\ early_stop_count = 0
    /\ latest_saved = FALSE
    /\ trained = 0
    /\ validated = 0
    /\ best_seen = 0
    /\ stopped = FALSE

Init ==
    /\ \E r \in Runs :
          /\ name = r.name
          /\ skip_predictions = r.skip
          /\ ar = r.ar
          /\ prior = r.prior
          /\ curve = r.curve
          /\ hparam_stems = r.stems[1]
          /\ test_stems = r.stems[2]
    /\ pitch_dir = InitCache(prior)
    /\ periodicity_dir = InitCache(prior)
    /\ artifacts = [a \in Artifacts |-> IF prior THEN "old" ELSE "absent"]
    /\ pc = "open_result"
    /\ stem_i = 1
    /\ np_pitch = <<>>
    /\ np_periodicity = <<>>
    /\ total_seconds = 0
    /\ total_frames = 0
    /\ total_infers = 0
    /\ left = 0
    /\ right = Scale
    /\ left_f1 = 0
    /\ right_f1 = 0
    /\ hparam_results = <<>>
    /\ best_thresh = NoThresh
    /\ per_stem = <<>>
    /\ result = NoResult
    /\ iters = 0
    /\ evals = <<>>
    /\ scored = {}
    /\ infer_calls = <<>>
    /\ TrainIdle

----------------------------------------------------------------------------
\* dataset_to_file, up to the call of dataset

\* open(file, 'w') creates the aggregate file, or empties the one there.
OpenResult ==
    /\ pc = "open_result"
    /\ artifacts' = [artifacts EXCEPT !["aggregate"] = "empty"]
    /\ pc' = "setup"
    /\ UNCHANGED <<train, config, cache, stem_i, np_pitch, np_periodicity, counters,
                   search, best_thresh, per_stem, result, evals, scored, infer_calls>>

----------------------------------------------------------------------------
\* from_stems: the prediction phase

AllStems == hparam_stems \o test_stems

\* The flag ignored: predictions are always made.
RunPredictionsAlways == AllStems # <<>>

\* "if not skip_predictions", and a loop over at least one stem
RunPredictions == ~skip_predictions /\ AllStems # <<>>

Setup ==
    /\ pc = "setup"
    /\ total_seconds' = 0
    /\ total_frames' = 0
    /\ total_infers' = 0
    /\ stem_i' = 1
    /\ pc' = IF RunPredictions THEN "predict" ELSE "loop"
    /\ UNCHANGED <<train, config, cache, artifacts, np_pitch, np_periodicity, search,
                   best_thresh, per_stem, result, evals, scored, infer_calls>>

\* Seconds and inference calls predict_from_file reports for a stem: one batch
\* of up to 1024 frames, a second per frame.
StemSeconds(stem) == PredLen(stem)
StemInfers(stem) == 1

\* The inference of one stem, in either mode; only the batch mode counts.
Infer ==
    /\ pc = "predict"
    /\ LET stem == AllStems[stem_i] IN
        /\ np_pitch' = Fill(PredLen(stem), "new")
        /\ np_periodicity' = Fill(PredLen(stem), "new")
        /\ infer_calls' = Append(infer_calls, stem)
        /\ IF ar
           THEN UNCHANGED counters
           ELSE /\ total_seconds' = total_seconds + StemSeconds(stem)
                /\ total_frames' = total_frames + PredLen(stem)
                /\ total_infers' = total_infers + StemInfers(stem)
    /\ pc' = "save_pitch"
    /\ UNCHANGED <<train, config, cache, artifacts, stem_i, search, best_thresh,
                   per_stem, result, evals, scored>>

\* The model or the loading of the audio raises.
InferFail ==
    /\ pc = "predict"
    /\ pc' = "failed"
    /\ UNCHANGED <<train, config, cache, artifacts, stem_i, np_pitch, np_periodicity,
                   counters, search, best_thresh, per_stem, result, evals, scored,
                   infer_calls>>

\* np.save(pitch_dir / f'{stem}.npy', np_pitch)
SavePitch ==
    /\ pc = "save_pitch"
    /\ pitch_dir' = [pitch_dir EXCEPT ![AllStems[stem_i]] = NpyFile(np_pitch)]
    /\ pc' = "save_periodicity"
    /\ UNCHANGED <<train, config, periodicity_dir, artifacts, stem_i, np_pitch,
                   np_periodicity, counters, search, best_thresh, per_stem, result,
                   evals, scored, infer_calls>>

\* The loop over the hyperparameter stems alone.
MoreStemsHparamOnly(i) == i <= Len(hparam_stems)

\* "for stem in hparam_stems + test_stems"
MoreStems(i) == i <= Len(AllStems)

\* np.save(periodicity_dir / f'{stem}.npy', np_periodicity), and the next stem
SavePeriodicity ==
    /\ pc = "save_periodicity"
    /\ periodicity_dir' =
           [periodicity_dir EXCEPT ![AllStems[stem_i]] = NpyFile(np_periodicity)]
    /\ stem_i' = stem_i + 1
    /\ pc' = IF MoreStems(stem_i + 1) THEN "predict" ELSE "loop"
    /\ UNCHANGED <<train, config, pitch_dir, artifacts, np_pitch, np_periodicity,
                   counters, search, best_thresh, per_stem, result, evals, scored,
                   infer_calls>>

----------------------------------------------------------------------------
\* from_stems: the calibration loop

\* A tolerance of 0.003: the loop halves the interval once more.
ContinueTighter(l, r) == (r - l) * 1000 > (TolMilli - 2) * Scale

\* while right - left > 0.005
Continue(l, r) == (r - l) * 1000 > TolMilli * Scale

\* The lookup dropped: every bound is scored again.
MemoizedNever(d, t) == FALSE

\* "if left in hparam_results" / "if right in hparam_results"
Memoized(d, t) == Has(d, t)

\* One bound of the loop: its f1 read from the table, or scored over the
\* hyperparameter stems and entered in the table.  f1 is the primed local
\* that receives it.
Bound(t, f1, next) ==
    IF Memoized(hparam_results, t)
    THEN /\ f1 = Lookup(hparam_results, t).f1
         /\ pc' = next
         /\ UNCHANGED <<hparam_results, evals, scored>>
    ELSE LET r == ScoreStems("evaluate_at_threshold", t, hparam_stems, <<>>, {}) IN
         /\ evals' = Append(evals, [thresh |-> t, on |-> "hparam"])
         /\ scored' = scored \cup r.calls
         /\ IF r.ok
            THEN \E v \in F1Values(t, hparam_stems) :
                    /\ hparam_results' = Put(hparam_results, t, Scores(t, v, r.acc))
                    /\ f1 = v
                    /\ pc' = next
            ELSE /\ f1 = 0
                 /\ pc' = "failed"
                 /\ UNCHANGED hparam_results

EvalLeft ==
    /\ pc = "loop"
    /\ Continue(left, right)
    /\ Bound(left, left_f1', "right")
    /\ UNCHANGED <<train, config, cache, artifacts, stem_i, np_pitch, np_periodicity,
                   counters, left, right, right_f1, iters, best_thresh, per_stem,
                   result, infer_calls>>

EvalRight ==
    /\ pc = "right"
    /\ Bound(right, right_f1', "narrow")
    /\ UNCHANGED <<train, config, cache, artifacts, stem_i, np_pitch, np_periodicity,
                   counters, left, right, left_f1, iters, best_thresh, per_stem,
                   result, infer_calls>>

\* The first quarter of the interval in place of its middle.
CenterQuarter(l, r) == l + (r - l) \div 4

\* center = (left + right) / 2
Center(l, r) == (l + r) \div 2

\* ">=" for ">": a tie moves the left bound.
MoveLeftOnTie(lf, rf) == rf >= lf

\* "if right_f1 > left_f1": the left bound moves, else the right one.
MoveLeft(lf, rf) == rf > lf

Narrow ==
    /\ pc = "narrow"
    /\ IF MoveLeft(left_f1, right_f1)
       THEN left' = Center(left, right) /\ UNCHANGED right
       ELSE right' = Center(left, right) /\ UNCHANGED left
    /\ iters' = iters + 1
    /\ pc' = "loop"
    /\ UNCHANGED <<train, config, cache, artifacts, stem_i, np_pitch, np_periodicity,
                   counters, left_f1, right_f1, hparam_results, best_thresh,
                   per_stem, result, evals, scored, infer_calls>>

----------------------------------------------------------------------------
\* from_stems: after the loop

\* The loop ends; json.dump(hparam_results, file)
WriteHparam ==
    /\ pc = "loop"
    /\ ~Continue(left, right)
    /\ artifacts' = [artifacts EXCEPT !["hparam"] = "written"]
    /\ pc' = "best"
    /\ UNCHANGED <<train, config, cache, stem_i, np_pitch, np_periodicity, counters,
                   search, best_thresh, per_stem, result, evals, scored, infer_calls>>

\* max(hparam_results) without the key function: the largest threshold.
BestThreshLargestKey(d) == CHOOSE k \in Keys(d) : \A j \in Keys(d) : j <= k

\* best_thresh = max(hparam_results, key=lambda x: hparam_results[x]['f1'])
BestThresh(d) == MaxKey(d)

PickBest ==
    /\ pc = "best"
    /\ best_thresh' = BestThresh(hparam_results)
    /\ pc' = "open_per_stem"
    /\ UNCHANGED <<train, config, cache, artifacts, stem_i, np_pitch, np_periodicity,
                   counters, search, per_stem, result, evals, scored, infer_calls>>

\* open(file, 'w') of the per-stem file, before evaluate_per_stem is called
OpenPerStem ==
    /\ pc = "open_per_stem"
    /\ artifacts' = [artifacts EXCEPT !["per_stem"] = "empty"]
    /\ pc' = "per_stem"
    /\ UNCHANGED <<train, config, cache, stem_i, np_pitch, np_periodicity, counters,
                   search, best_thresh, per_stem, result, evals, scored, infer_calls>>

\* json.dump(evaluate_per_stem(best_thresh, test_stems), file)
EvalPerStem ==
    /\ pc = "per_stem"
    /\ LET r == PerStem(best_thresh, test_stems, <<>>, <<>>, {}) IN
        /\ scored' = scored \cup r.calls
        /\ IF r.ok
           THEN /\ per_stem' = r.res
                /\ artifacts' = [artifacts EXCEPT !["per_stem"] = "written"]
                /\ pc' = "test"
           ELSE /\ pc' = "failed"
                /\ UNCHANGED <<per_stem, artifacts>>
    /\ UNCHANGED <<train, config, cache, stem_i, np_pitch, np_periodicity, counters,
                   search, best_thresh, result, evals, infer_calls>>

\* return evaluate_at_threshold(best_thresh, test_stems)
EvalTest ==
    /\ pc = "test"
    /\ LET r == ScoreStems("evaluate_at_threshold", best_thresh, test_stems, <<>>, {}) IN
        /\ evals' = Append(evals, [thresh |-> best_thresh, on |-> "test"])
        /\ scored' = scored \cup r.calls
        /\ IF r.ok
           THEN \E v \in F1Values(best_thresh, test_stems) :
                   /\ result' = Scores(best_thresh, v, r.acc)
                   /\ pc' = "dump"
           ELSE /\ pc' = "failed"
                /\ UNCHANGED result
    /\ UNCHANGED <<train, config, cache, artifacts, stem_i, np_pitch, np_periodicity,
                   counters, search, best_thresh, per_stem, infer_calls>>

\* dataset_to_file: json.dump(<the dict returned>, file)
DumpResult ==
    /\ pc = "dump"
    /\ artifacts' = [artifacts EXCEPT !["aggregate"] = "written"]
    /\ pc' = "done"
    /\ UNCHANGED <<train, config, cache, stem_i, np_pitch, np_periodicity, counters,
                   search, best_thresh, per_stem, result, evals, scored, infer_calls>>

----------------------------------------------------------------------------

Next ==
    \/ OpenResult
    \/ Setup
    \/ Infer
    \/ InferFail
    \/ SavePitch
    \/ SavePeriodicity
    \/ EvalLeft
    \/ EvalRight
    \/ Narrow
    \/ WriteHparam
    \/ PickBest
    \/ OpenPerStem
    \/ EvalPerStem
    \/ EvalTest
    \/ DumpResult

Spec == Init /\ [][Next]_vars

----------------------------------------------------------------------------
\* Properties of the calibration search

Abs(x) == IF x < 0 THEN 0 - x ELSE x

\* The loop has ended (the table is complete).
LoopEnded == pc \in {"best", "open_per_stem", "per_stem", "test", "dump", "done"}

\* best_thresh has been assigned.
Calibrated == pc \in {"open_per_stem", "per_stem", "test", "dump", "done"}

\* F1 of the hyperparameter stems is the synthetic unimodal curve.
Unimodal == curve.kind = "tent" /\ hparam_stems # <<>>

\* The thresholds evaluate_at_threshold was called with on the hyperparameter
\* stems, in order.
HparamEvals == SelectSeq(evals, LAMBDA e : e.on = "hparam")

\* C1: on every F1 curve that is unimodal with its single maximum at t = 0.3,
\* the search started at left = 0, right = 1 ends within 8 iterations and the
\* calibrated threshold is within 0.005 of 0.3.
C1_UnimodalConverges ==
    (Unimodal /\ Calibrated) =>
        /\ iters <= 8
        /\ Abs(1000 * best_thresh - 300 * Scale) <= 5 * Scale

\* C2: after the loop the calibrated threshold is a key of the table whose F1
\* is at least the F1 of every entry of the table, whether or not the entry
\* is still a bound of the interval.
C2_BestIsArgmax ==
    Calibrated =>
        /\ Has(hparam_results, best_thresh)
        /\ \A i \in 1..Len(hparam_results) :
              hparam_results[i].scores.f1 <= Lookup(hparam_results, best_thresh).f1

\* C2 witness: a finished run whose best threshold is a bound the interval
\* has left behind, with a strictly smaller F1 at both final bounds' entries.
C2_Witness ==
    /\ pc = "done"
    /\ best_thresh \notin {left, right}
    /\ \E i \in 1..Len(hparam_results) :
          hparam_results[i].scores.f1 < Lookup(hparam_results, best_thresh).f1

\* No table entry is replaced or removed by a step.
TableKept ==
    /\ Len(hparam_results') >= Len(hparam_results)
    /\ \A i \in 1..Len(hparam_results) : hparam_results'[i] = hparam_results[i]

\* C3: within a run evaluate_at_threshold is called on the hyperparameter
\* stems at most once per threshold, every threshold scored is a key of the
\* table unless the scoring raised, and no entry of the table is overwritten.
C3_ScoredOnce ==
    /\ [](LET scorings == HparamEvals IN
          /\ \A i, j \in 1..Len(scorings) :
               scorings[i].thresh = scorings[j].thresh => i = j
          /\ \A i, j \in 1..Len(hparam_results) :
               hparam_results[i].key = hparam_results[j].key => i = j
          /\ Len(hparam_results) <= Len(scorings))
    /\ [][TableKept]_vars

\* C3 witness: a run that read a memoized bound: more bounds compared than
\* thresholds scored, on a curve that is not constant.
C3_Witness ==
    /\ pc = "done"
    /\ curve.kind = "free"
    /\ Len(HparamEvals) = 9
    /\ iters = 8
    /\ \E i, j \in 1..Len(hparam_results) :
          hparam_results[i].scores.f1 # hparam_results[j].scores.f1

\* The run is inside the calibration loop.
InLoop == pc \in {"loop", "right", "narrow"}

\* C4: for every F1 the loop ends after at most 8 iterations: the count never
\* passes 8, inside the loop the run always has a next step (it is never
\* stuck), and once the loop has ended right - left <= 0.005.
C4_LoopTerminates ==
    /\ iters <= 8
    /\ InLoop => ENABLED Next
    /\ pc = "loop" /\ iters = 8 => (right - left) * 1000 <= 5 * Scale
    /\ LoopEnded => (right - left) * 1000 <= 5 * Scale

\* C4 witness: the loop has ended after 8 iterations, with right - left =
\* 2^-8, on stems whose F1 was 0 at every threshold scored.
C4_Witness ==
    /\ pc = "best"
    /\ iters = 8
    /\ (right - left) * 256 = Scale
    /\ hparam_stems # <<>>
    /\ \A i \in 1..Len(hparam_results) : hparam_results[i].scores.f1 = 0

\* An iteration compares equal F1 values.
Tie == pc = "narrow" /\ left_f1 = right_f1

\* C5 as stated: in an iteration where F1(left) = F1(right) the right bound is
\* kept and left moves to the center; the search ends with a defined
\* threshold.
C5_TieKeepsRight ==
    /\ [][Tie => (right' = right /\ left' = Center(left, right))]_vars
    /\ [](Calibrated => Has(hparam_results, best_thresh))

\* C5 as amended: in an iteration where F1(left) = F1(right) the left bound is
\* kept and right moves to the center; the search ends with a defined
\* threshold, and with no hyperparameter stem (F1 = 0 everywhere) every
\* iteration is a tie, left stays 0 and the threshold is 0.
C5_TieKeepsLeft ==
    /\ [][Tie => (left' = left /\ right' = Center(left, right))]_vars
    /\ [](Calibrated => Has(hparam_results, best_thresh))
    /\ [](hparam_stems = <<>> =>
            /\ left = 0
            /\ pc = "narrow" => left_f1 = right_f1
            /\ Calibrated => best_thresh = 0)

\* C5 witness: the run with no hyperparameter stem has ended its 8 tied
\* iterations with right = 2^-8, and has its threshold.
C5_Witness ==
    /\ hparam_stems = <<>>
    /\ Calibrated
    /\ iters = 8
    /\ right * 256 = Scale
    /\ best_thresh = 0

----------------------------------------------------------------------------
\* Properties of the files

Range(q) == {q[i] : i \in 1..Len(q)}

\* The computation whose result the artifact holds has succeeded.
Computed(a) ==
    CASE a = "hparam" -> (right - left) * 1000 <= 5 * Scale
      [] a = "per_stem" -> Len(per_stem) = Len(test_stems)
      [] a = "aggregate" -> result # NoResult

\* C6: each JSON artifact is created or modified only after the computation
\* of its content has succeeded; when scoring or inference fails, no artifact
\* file is empty and no artifact of an earlier run has been truncated.
C6_WriteOnSuccess ==
    \A a \in Artifacts :
        /\ artifacts[a] \in {"empty", "written"} => Computed(a)
        /\ pc = "failed" => artifacts[a] # "empty"

\* C7: at every point of a run the cache entry of a stem is absent, or is the
\* pitch and the periodicity of one store (in the model the two sequences of
\* one store are equal: same run, same length).
C7_StoreAtomic ==
    \A stem \in Stems : pitch_dir[stem] = periodicity_dir[stem]

----------------------------------------------------------------------------
\* Properties of the scoring

\* The update call scored fewer predicted frames than the cache holds.
Cut(u) == Len(u.pitch) < Len(pitch_dir[u.stem].data)

\* C8: in evaluate_at_threshold and in evaluate_per_stem, when the dataset is
\* PTDB and the prediction is longer than the reference, pitch and
\* periodicity are scored cut to the reference length (their first frames);
\* in every other case they are scored as loaded; the reference is scored
\* whole in every case.
C8_Truncation ==
    \A u \in scored :
        LET p == pitch_dir[u.stem].data
            q == periodicity_dir[u.stem].data
            n == RefLen(u.stem)
        IN /\ u.annotation = Annotation(u.stem)
           /\ Len(u.annotation) = n
           /\ IF name = "PTDB" /\ Len(p) > n
              THEN /\ Len(u.pitch) = n
                   /\ Len(u.periodicity) = n
                   /\ \A i \in 1..n : u.pitch[i] = p[i] /\ u.periodicity[i] = q[i]
              ELSE u.pitch = p /\ u.periodicity = q

\* C8 witness: a PTDB run in which each of the two functions has cut a
\* prediction one frame longer than its reference, and has scored as loaded
\* a prediction that is not longer (equal, and one frame shorter).
C8_Witness ==
    /\ name = "PTDB"
    /\ \E u, v \in scored :
          /\ u.fn = "evaluate_at_threshold" /\ Cut(u)
          /\ v.fn = "evaluate_per_stem" /\ Cut(v)
    /\ \E u, v \in scored :
          /\ u.fn = "evaluate_at_threshold" /\ ~Cut(u)
          /\ v.fn = "evaluate_per_stem" /\ ~Cut(v)
          /\ Len(v.pitch) < Len(v.annotation)

\* The stem's cache entry was stored by this run, after its inference.
StoredNow(stem) ==
    /\ stem \in Range(infer_calls)
    /\ pitch_dir[stem] = NpyFile(Fill(PredLen(stem), "new"))
    /\ periodicity_dir[stem] = NpyFile(Fill(PredLen(stem), "new"))

\* A test stem has been scored.
TestScored ==
    \/ \E u \in scored : u.stem \in Range(test_stems)
    \/ \E i \in 1..Len(evals) : evals[i].on = "test"

\* C9: when predictions are not skipped, every stem of both lists has been
\* inferred and stored before the first scoring; the hyperparameter table is
\* written after the loop has ended and before any test stem is scored; test
\* stems are scored only at the calibrated threshold.
C9_Ordering ==
    ~skip_predictions =>
        /\ (evals # <<>> \/ scored # {}) => \A stem \in Range(AllStems) : StoredNow(stem)
        /\ artifacts["hparam"] = "written" => (right - left) * 1000 <= 5 * Scale
        /\ artifacts["hparam"] = "written" => ~InLoop
        /\ TestScored =>
              /\ artifacts["hparam"] = "written"
              /\ best_thresh = MaxKey(hparam_results)
        /\ \A u \in scored : u.stem \in Range(test_stems) => u.thresh = best_thresh
        /\ \A i \in 1..Len(evals) :
              evals[i].on = "test" => evals[i].thresh = best_thresh

\* C9 witness: a finished run that made its predictions over a cache of an
\* earlier run, scored 9 thresholds and then the test stems.
C9_Witness ==
    /\ ~skip_predictions
    /\ prior
    /\ pc = "done"
    /\ hparam_stems # <<>>
    /\ Len(evals) = 10
    /\ evals[10].on = "test"

\* C10: with skip_predictions no inference is made and no cache file is
\* written: the cache is what it was when the run started, and every
\* prediction scored was read from it.
C10_SkipPredictions ==
    skip_predictions =>
        LET before == InitCache(prior) IN
        /\ infer_calls = <<>>
        /\ pc \notin {"predict", "save_pitch", "save_periodicity"}
        /\ pitch_dir = before
        /\ periodicity_dir = before
        /\ \A u \in scored :
              /\ before[u.stem].exists
              /\ u.pitch = SubSeq(before[u.stem].data, 1, Len(u.pitch))
              /\ u.periodicity = SubSeq(before[u.stem].data, 1, Len(u.periodicity))

\* C10 witness: a finished run with skip_predictions that scored both lists
\* from the cache of the earlier run.
C10_Witness ==
    /\ skip_predictions
    /\ pc = "done"
    /\ \E u, v \in scored :
          u.stem \in Range(hparam_stems) /\ v.stem \in Range(test_stems)

----------------------------------------------------------------------------
\* Properties of the result records

\* What evaluate_per_stem returns for the stem on a list of that stem alone.
Alone(t, stem) == Lookup(PerStem(t, <<stem>>, <<>>, <<>>, {}).res, stem)

\* C11: the record evaluate_per_stem stores for a test stem is computed from
\* accumulators that hold that stem's frames only: it is the record the stem
\* gets on a list of its own, whatever stems precede it in the list.
C11_PerStemAlone ==
    \A i \in 1..Len(per_stem) :
        /\ per_stem[i].key = test_stems[i]
        /\ Len(per_stem[i].scores.acc) = 1
        /\ per_stem[i].scores.acc[1][1] = per_stem[i].key
        /\ per_stem[i].scores = Alone(best_thresh, per_stem[i].key)

\* C11 witness: the per-stem table of two stems, the second one scored after
\* a stem with a different number of frames in the cache.
C11_Witness ==
    /\ Len(per_stem) = 2
    /\ per_stem[2].key = "t1"
    /\ per_stem[1].scores.acc # <<>>
    /\ Len(pitch_dir[per_stem[1].key].data) # Len(pitch_dir[per_stem[2].key].data)

\* What inference on one stem adds to a counter.
Amount(counter, stem) ==
    CASE counter = "seconds" -> StemSeconds(stem)
      [] counter = "frames" -> PredLen(stem)
      [] counter = "infers" -> StemInfers(stem)

\* The sum of a counter over the stems of a list.
RECURSIVE Total(_, _)
Total(counter, q) ==
    IF q = <<>> THEN 0 ELSE Amount(counter, Head(q)) + Total(counter, Tail(q))

\* The record reports the sums over the stems inference was run on.
ReportsTotals(rec) ==
    /\ rec.seconds = Total("seconds", infer_calls)
    /\ rec.frames = Total("frames", infer_calls)
    /\ rec.infers = Total("infers", infer_calls)

\* C12: when predictions are not skipped, once the prediction phase is over
\* inference has been run on every stem of both lists, and the seconds,
\* frames and infers of every record evaluate_at_threshold returns are the
\* sums over those stems, in the autoregressive and in the batch mode.
C12_Throughput ==
    ~skip_predictions =>
        /\ (hparam_results # <<>> \/ result # NoResult) => infer_calls = AllStems
        /\ \A i \in 1..Len(hparam_results) : ReportsTotals(hparam_results[i].scores)
        /\ result # NoResult => ReportsTotals(result)

----------------------------------------------------------------------------
\* The interval of the calibration loop

\* The bounds are ordered inside [0, 1] and k iterations leave a width of 2^-k.
IntervalHalved ==
    /\ 0 <= left /\ left < right /\ right <= Scale
    /\ (right - left) * 2^iters = Scale

\* The table holds one entry for each bound compared so far, and none for
\* the bound the last iteration moved until the next iteration scores it.
OnePerBound ==
    LET keys == Keys(hparam_results)
        moved == IF left \in keys THEN right ELSE left
    IN  /\ Cardinality(keys) = Len(hparam_results)
        /\ keys = {HparamEvals[i].thresh : i \in 1..Len(HparamEvals)}
        /\ pc = "narrow" => {left, right} \subseteq keys
                             /\ Len(hparam_results) = iters + 2
        /\ pc = "right" => left \in keys
        /\ (pc = "loop" \/ LoopEnded) /\ iters > 0 =>
              /\ Len(hparam_results) = iters + 1
              /\ moved \notin keys
              /\ {left, right} \ {moved} \subseteq keys
        /\ LoopEnded => iters = 8

\* An iteration moves one bound to the midpoint; nothing else moves a bound.
OneBoundMoves ==
    IF pc = "narrow"
    THEN LET center == Center(left, right) IN
         \/ left' = center /\ right' = right
         \/ right' = center /\ left' = left
    ELSE left' = left /\ right' = right

\* C15: in every state of the calibration loop 0 <= left < right <= 1 and
\* after k iterations right - left = 2^-k; each iteration moves exactly one
\* bound to the midpoint and leaves the other; the bound moved last is not
\* scored, and the table holds exactly one entry per bound value compared.
C15_Interval ==
    /\ [](IntervalHalved /\ (pc # "failed" => OnePerBound))
    /\ [][OneBoundMoves]_vars

\* The loop has ended and its last iteration moved the left bound, which
\* has no entry in the table.
C15_Witness ==
    /\ LoopEnded
    /\ iters = 8
    /\ left > 0
    /\ left \notin Keys(hparam_results)
    /\ right \in Keys(hparam_results)
    /\ Len(hparam_results) = 9

----------------------------------------------------------------------------
\* train.main: the epoch loop

\* Largest --max_epochs.
MaxEpochs == 4
\* Largest number of batches a data loader holds.
LoaderLen == 3
\* Largest --limit_train_batches and --limit_val_batches.
MaxLimit == 2
\* Validation accuracy takes the levels 0 .. MaxAcc (accuracy k / MaxAcc).
MaxAcc == 2
\* penne.EARLY_STOP_PATIENCE
EARLY_STOP_PATIENCE == 2

evaluation == <<config, cache, artifacts, pc, stem_i, np_pitch, np_periodicity,
                counters, search, best_thresh, per_stem, result, evals, scored,
                infer_calls>>

\* from_stems is not running.
EvaluateIdle ==
    /\ name = "PTDB"
    /\ skip_predictions = FALSE
    /\ ar = FALSE
    /\ hparam_stems = <<>>
    /\ test_stems = <<>>
    /\ curve = [kind |-> "free"]
    /\ prior = FALSE
    /\ pitch_dir = InitCache(FALSE)
    /\ periodicity_dir = InitCache(FALSE)
    /\ artifacts = [a \in Artifacts |-> "absent"]
    /\ pc = "idle"
    /\ stem_i = 1
    /\ np_pitch = <<>>
    /\ np_periodicity = <<>>
    /\ total_seconds = 0
    /\ total_frames = 0
    /\ total_infers = 0
    /\ left = 0
    /\ right = Scale
    /\ left_f1 = 0
    /\ right_f1 = 0
    /\ hparam_results = <<>>
    /\ best_thresh = NoThresh
    /\ per_stem = <<>>
    /\ result = NoResult
    /\ iters = 0
    /\ evals = <<>>
    /\ scored = {}
    /\ infer_calls = <<>>

\* parse_args, the data loaders, "early_stop_count = 0; last_val_acc = 0"
TrainInit ==
    /\ max_epochs \in 0..MaxEpochs
    /\ limit_train_batches \in 0..MaxLimit
    /\ limit_val_batches \in 0..MaxLimit
    /\ train_len \in 0..LoaderLen
    /\ val_len \in 0..LoaderLen
    /\ tpc = "epoch"
    /\ epoch = 0
    /\ batch_t = 0
    /\ val_accuracy = 0
    /\ last_val_acc = 0
    /\ early_stop_count = 0
    /\ latest_saved = FALSE
    /\ trained = 0
    /\ validated = 0
    /\ best_seen = 0
    /\ stopped = FALSE
    /\ EvaluateIdle

\* "for epoch in range(1, args.max_epochs + 1)": the next epoch begins with
\* fresh meters.
EpochStart ==
    /\ tpc = "epoch"
    /\ epoch < max_epochs
    /\ epoch' = epoch + 1
    /\ batch_t' = 0
    /\ trained' = 0
    /\ validated' = 0
    /\ tpc' = "train"
    /\ UNCHANGED <<targs, val_accuracy, last_val_acc, early_stop_count,
                   latest_saved, best_seen, stopped, evaluation>>

\* range(1, args.max_epochs + 1) is exhausted.
EpochsDone ==
    /\ tpc = "epoch"
    /\ epoch >= max_epochs
    /\ tpc' = "latest"
    /\ UNCHANGED <<targs, epoch, batch_t, val_accuracy, last_val_acc, early_stop_count,
                   latest_saved, trained, validated, best_seen, stopped,
                   evaluation>>

\* "if t > args.limit_train_batches" / "if t > args.limit_val_batches"
OverLimit(i, limit) == i > limit

\* The training loop hands out batch t and its body runs: forward pass,
\* metric update, optimizer step.
TrainBatch ==
    /\ tpc = "train"
    /\ batch_t < train_len
    /\ ~OverLimit(batch_t, limit_train_batches)
    /\ trained' = trained + 1
    /\ batch_t' = batch_t + 1
    /\ UNCHANGED <<targs, tpc, epoch, val_accuracy, last_val_acc,
                   early_stop_count, latest_saved, validated, best_seen, stopped,
                   evaluation>>

\* The training loop hands out batch t and breaks.
TrainBreak ==
    /\ tpc = "train"
    /\ batch_t < train_len
    /\ OverLimit(batch_t, limit_train_batches)
    /\ batch_t' = 0
    /\ tpc' = "validate"
    /\ UNCHANGED <<targs, epoch, val_accuracy, last_val_acc, early_stop_count,
                   latest_saved, trained, validated, best_seen, stopped,
                   evaluation>>

\* train_loader is exhausted.
TrainEnd ==
    /\ tpc = "train"
    /\ batch_t >= train_len
    /\ batch_t' = 0
    /\ tpc' = "validate"
    /\ UNCHANGED <<targs, epoch, val_accuracy, last_val_acc, early_stop_count,
                   latest_saved, trained, validated, best_seen, stopped,
                   evaluation>>

\* The validation loop hands out batch t and its body runs.
ValBatch ==
    /\ tpc = "validate"
    /\ batch_t < val_len
    /\ ~OverLimit(batch_t, limit_val_batches)
    /\ validated' = validated + 1
    /\ batch_t' = batch_t + 1
    /\ UNCHANGED <<targs, tpc, epoch, val_accuracy, last_val_acc,
                   early_stop_count, latest_saved, trained, best_seen, stopped,
                   evaluation>>

\* valid_accs.avg: 0 as reset left it when no batch updated the meter, else
\* the mean of the accuracies of the batches, any level.
ValidAccsAvg(n) == IF n = 0 THEN {0} ELSE 0..MaxAcc

\* The validation loop hands out batch t and breaks;
\* "val_accuracy = valid_accs.avg"
ValBreak ==
    /\ tpc = "validate"
    /\ batch_t < val_len
    /\ OverLimit(batch_t, limit_val_batches)
    /\ val_accuracy' \in ValidAccsAvg(validated)
    /\ tpc' = "early_stop"
    /\ UNCHANGED <<targs, epoch, batch_t, last_val_acc, early_stop_count, latest_saved,
                   trained, validated, best_seen, stopped, evaluation>>

\* valid_loader is exhausted; "val_accuracy = valid_accs.avg"
ValEnd ==
    /\ tpc = "validate"
    /\ batch_t >= val_len
    /\ val_accuracy' \in ValidAccsAvg(validated)
    /\ tpc' = "early_stop"
    /\ UNCHANGED <<targs, epoch, batch_t, last_val_acc, early_stop_count, latest_saved,
                   trained, validated, best_seen, stopped, evaluation>>

\* "<" for "<=": an epoch that equals the best one resets the count.
NoImprovementStrict(v, last) == v - last < 0

\* "if val_accuracy - last_val_acc <= 0"
NoImprovement(v, last) == v - last <= 0

\* "if early_stop_count >= penne.EARLY_STOP_PATIENCE"
OutOfPatience(count) == count >= EARLY_STOP_PATIENCE

Max(a, b) == IF a >= b THEN a ELSE b

\* The early stopping block, then either the break or the rest of the epoch
\* (the best and periodic checkpoints and the example plots, files no
\* variable of this model holds).
EarlyStop ==
    /\ tpc = "early_stop"
    /\ IF NoImprovement(val_accuracy, last_val_acc)
       THEN /\ early_stop_count' = early_stop_count + 1
            /\ UNCHANGED last_val_acc
       ELSE /\ early_stop_count' = 0
            /\ last_val_acc' = val_accuracy
    /\ IF OutOfPatience(early_stop_count')
       THEN stopped' = TRUE /\ tpc' = "latest"
       ELSE UNCHANGED stopped /\ tpc' = "epoch"
    /\ best_seen' = Max(best_seen, val_accuracy)
    /\ UNCHANGED <<targs, epoch, batch_t, val_accuracy, latest_saved, trained,
                   validated, evaluation>>

\* After the loop: torch.save(..., checkpoint_dir / 'latest.ckpt')
SaveLatest ==
    /\ tpc = "latest"
    /\ latest_saved' = TRUE
    /\ tpc' = "done"
    /\ UNCHANGED <<targs, epoch, batch_t, val_accuracy, last_val_acc, early_stop_count,
                   trained, validated, best_seen, stopped, evaluation>>

TrainNext ==
    \/ EpochStart
    \/ EpochsDone
    \/ TrainBatch
    \/ TrainBreak
    \/ TrainEnd
    \/ ValBatch
    \/ ValBreak
    \/ ValEnd
    \/ EarlyStop
    \/ SaveLatest

TrainSpec == TrainInit /\ [][TrainNext]_vars

----------------------------------------------------------------------------
\* Properties of train.main

\* C13: in every epoch at most limit_train_batches training batches and at
\* most limit_val_batches validation batches are processed, however many
\* batches the loaders hold.
C13_BatchLimit ==
    /\ trained <= limit_train_batches
    /\ validated <= limit_val_batches

\* The count and the best accuracy between two epochs, and the exit.
EarlyStopState ==
    /\ last_val_acc = best_seen
    /\ tpc \in {"epoch", "train", "validate", "early_stop"} =>
          ~stopped /\ early_stop_count < EARLY_STOP_PATIENCE
    /\ tpc \in {"latest", "done"} =>
          IF stopped
          THEN early_stop_count = EARLY_STOP_PATIENCE
          ELSE epoch = max_epochs /\ early_stop_count < EARLY_STOP_PATIENCE
    /\ tpc = "done" => latest_saved

\* The early stopping block of one epoch.
EarlyStopStep ==
    tpc = "early_stop" =>
        /\ IF val_accuracy > best_seen
           THEN early_stop_count' = 0
           ELSE early_stop_count' = early_stop_count + 1
        /\ stopped' = (early_stop_count' >= EARLY_STOP_PATIENCE)
        /\ tpc' = IF stopped' THEN "latest" ELSE "epoch"

====
